---- MODULE Spec2Model ----
(***************************************************************************)
(* Model of the Remix route app/routes/api.backend.ts of visionly.ai: the   *)
(* `action` handler that forwards one query to one configured backend      *)
(* service through axios.post, run by several invocations at once.         *)
(***************************************************************************)
EXTENDS Integers, Sequences, FiniteSets, TLC

(* ------------------------------ bounds -------------------------------- *)

\* number of action invocations that may be in flight together
NumInvocations == 2

\* the wall clock runs over 0..MaxTime (milliseconds after the epoch)
MaxTime == 1

Invocations == 1..NumInvocations

(* ------------------------- JavaScript values -------------------------- *)

\* FormData.get gives null for a missing field; a missing property reads as undefined
Null == "<null>"
Undefined == "<undefined>"

\* the undefined value where an object is expected
UndefinedValue == [kind |-> "undefined"]

\* process.env: the URL variables of the deployment (WEATHER_API_URL is unset)
Env ==
  [ FINANCE_API_URL |-> "http://finance",
    NEWS_API_URL    |-> "http://news",
    TRENDS_API_URL  |-> "http://trends",
    META_API_URL    |-> "http://meta",
    TIKTOK_API_URL  |-> "http://tiktok",
    WEATHER_API_URL |-> Undefined ]

\* `process.env.X || ""`
OrEmpty(v) == IF v = Undefined \/ v = "" THEN "" ELSE v

Sources == {"finance", "news", "trends", "meta", "tiktok", "weather"}

BACKEND_CONFIG ==
  [ finance |-> [kind |-> "config", url |-> OrEmpty(Env.FINANCE_API_URL),
                 description |-> "Financial data and currency analysis"],
    news    |-> [kind |-> "config", url |-> OrEmpty(Env.NEWS_API_URL),
                 description |-> "News sentiment analysis and market insights"],
    trends  |-> [kind |-> "config", url |-> OrEmpty(Env.TRENDS_API_URL),
                 description |-> "Google Trends and search analytics"],
    meta    |-> [kind |-> "config", url |-> OrEmpty(Env.META_API_URL),
                 description |-> "Meta/Facebook social media analytics"],
    tiktok  |-> [kind |-> "config", url |-> OrEmpty(Env.TIKTOK_API_URL),
                 description |-> "TikTok engagement and trend analysis"],
    weather |-> [kind |-> "config", url |-> OrEmpty(Env.WEATHER_API_URL),
                 description |-> "Weather data and forecasting"] ]

\* BACKEND_CONFIG is an object literal: a read of a name it does not own falls
\* through to Object.prototype, whose members are all truthy
ObjectPrototypeKeys ==
  {"constructor", "__proto__", "hasOwnProperty", "isPrototypeOf",
   "propertyIsEnumerable", "toLocaleString", "toString", "valueOf"}

\* a property key is a string: null is read as the key "null"
PropertyKey(v) == IF v = Null THEN "null" ELSE v

\* BACKEND_CONFIG[service]
Lookup(service) ==
  IF PropertyKey(service) \in DOMAIN BACKEND_CONFIG
    THEN BACKEND_CONFIG[PropertyKey(service)]
    ELSE IF PropertyKey(service) \in ObjectPrototypeKeys
      THEN [kind |-> "inherited", name |-> PropertyKey(service)]
      ELSE UndefinedValue

\* `!serviceConfig` is false for every object and function
Truthy(v) == v.kind # "undefined"

\* serviceConfig.url
UrlOf(v) == IF "url" \in DOMAIN v THEN v.url ELSE Undefined

(* --------------------------- toISOString ------------------------------ *)

Pad(n, w) ==
  IF w = 2 THEN (IF n < 10 THEN "0" ELSE "") \o ToString(n)
  ELSE (IF n < 10 THEN "00" ELSE IF n < 100 THEN "0" ELSE "") \o ToString(n)

\* new Date(ms).toISOString(), for instants of the first day of the epoch
ToISOString(ms) ==
  "1970-01-01T" \o Pad(ms \div 3600000, 2) \o ":" \o Pad((ms \div 60000) % 60, 2)
    \o ":" \o Pad((ms \div 1000) % 60, 2) \o "." \o Pad(ms % 1000, 3) \o "Z"

(* ------------------------------ inputs -------------------------------- *)

\* values of the form field `service`: two configured sources (one whose URL is
\* unset), an inherited property name, an unknown name and the missing field
ServiceInputs == {"finance", "weather", "constructor", "bogus", Null}

QueryInputs == {"shoes", "hats"}

\* bodies a backend answers with on a 2xx status: the documented shape and another
Payloads ==
  { [success |-> TRUE, data |-> "rows"],
    [html |-> "<h1>It works</h1>"] }

\* what axios.post rejects with: an Error with its message (no connection and a
\* non-2xx status both give an AxiosError) and a value that is no Error
Rejections ==
  { [isError |-> TRUE,  message |-> "Request failed with status code 503"],
    [isError |-> FALSE, message |-> Undefined] }

(* ------------------------------- state -------------------------------- *)

VARIABLES
  pc,        \* where each invocation of `action` stands
  service,   \* formData.get("service")
  query,     \* formData.get("query")
  inflight,  \* the request axios.post has sent and that is not answered yet
  settled,   \* how the promise of axios.post settled
  response,  \* the Response the invocation returned
  posts,     \* number of axios.post calls the invocation made
  now,       \* the wall clock
  session,   \* what authenticate.admin gave the invocation
  loaderData,     \* the Response an invocation of `loader` returned
  backendConfig,  \* the module-level object BACKEND_CONFIG
  jobStatus,       \* Job.status of the job engine's job
  sourceResults,   \* Job.sourceResults: requested source -> SourceResult
  combinedInsight  \* Job.combinedInsight, or absent

routeVars == <<session, loaderData, backendConfig>>

handlerVars ==
  <<pc, service, query, inflight, settled, response, posts, now, routeVars>>

jobVars == <<jobStatus, sourceResults, combinedInsight>>

vars == <<handlerVars, jobVars>>

NoCall == [method |-> "none"]
NotSettled == [kind |-> "pending"]
NoResponse == [status |-> 0]
NoSession == "none"
AdminSession == "admin"
Absent == [absent |-> TRUE]

Init ==
  /\ pc = [i \in Invocations |-> "idle"]
  /\ service = [i \in Invocations |-> Undefined]
  /\ query = [i \in Invocations |-> Undefined]
  /\ inflight = [i \in Invocations |-> NoCall]
  /\ settled = [i \in Invocations |-> NotSettled]
  /\ response = [i \in Invocations |-> NoResponse]
  /\ posts = [i \in Invocations |-> 0]
  /\ now = 0
  /\ session = [i \in Invocations |-> NoSession]
  /\ loaderData = [i \in Invocations |-> NoResponse]
  /\ backendConfig = BACKEND_CONFIG
  /\ jobStatus = "none"
  /\ sourceResults = <<>>
  /\ combinedInsight = Absent

(* ----------------------------- responses ------------------------------ *)

\* the keys of the response bodies whose values are strings
StringKeys == {"error", "details", "service"}

\* JSON.stringify leaves out the keys whose value is undefined
Stringify(body) ==
  [k \in {n \in DOMAIN body : n \notin StringKeys \/ body[n] # Undefined} |-> body[k]]

\* json(body, {status}); the status is 200 when none is given
Json(body, status) == [status |-> status, body |-> Stringify(body)]

InvalidServiceResponse == Json([error |-> "Invalid service selected"], 400)

\* as SuccessResponse, with the URL of the service where its name belongs
SuccessResponseWithUrl(data, svc) ==
  Json([success |-> TRUE, data |-> data, service |-> UrlOf(Lookup(svc))], 200)

SuccessResponse(data, svc) ==
  Json([success |-> TRUE, data |-> data, service |-> svc], 200)

\* as Details, without the instanceof test
DetailsMessageOnly(error) == error.message

\* error instanceof Error ? error.message : "Unknown error"
Details(error) == IF error.isError THEN error.message ELSE "Unknown error"

\* as FailureResponse, shaped like the success response with empty data
FailureResponseWithData(error) ==
  Json([error |-> "Failed to connect to backend service",
        details |-> Details(error), data |-> [rows |-> "none"]], 500)

FailureResponse(error) ==
  Json([error |-> "Failed to connect to backend service",
        details |-> Details(error)], 500)

\* the arguments of axios.post
PostCall(config, q, t) ==
  [method |-> "POST", url |-> UrlOf(config),
   body |-> [query |-> q, timestamp |-> ToISOString(t)]]

(* ------------------------------ actions ------------------------------- *)

Tick ==
  /\ now < MaxTime
  /\ now' = now + 1
  /\ UNCHANGED <<pc, service, query, inflight, settled, response, posts, routeVars, jobVars>>

\* await authenticate.admin(request) resolves
AuthenticateOk(i) ==
  /\ pc[i] = "idle"
  /\ pc' = [pc EXCEPT ![i] = "formData"]
  /\ session' = [session EXCEPT ![i] = AdminSession]
  /\ UNCHANGED <<service, query, inflight, settled, response, posts, now,
                 loaderData, backendConfig, jobVars>>

\* as AuthenticateThrow, with the call of authenticate.admin inside the try block
AuthenticateThrowCaught(i) ==
  /\ pc[i] = "idle"
  /\ response' = [response EXCEPT ![i] =
                    FailureResponse([isError |-> TRUE, message |-> "Unauthorized"])]
  /\ pc' = [pc EXCEPT ![i] = "returned"]
  /\ UNCHANGED <<service, query, inflight, settled, posts, now, routeVars, jobVars>>

\* await authenticate.admin(request) throws, before the try block
AuthenticateThrow(i) ==
  /\ pc[i] = "idle"
  /\ pc' = [pc EXCEPT ![i] = "thrown"]
  /\ UNCHANGED <<service, query, inflight, settled, response, posts, now, routeVars, jobVars>>

\* loader: authenticate.admin resolves and the configuration is returned
LoaderReturn(i) ==
  /\ pc[i] = "idle"
  /\ session' = [session EXCEPT ![i] = AdminSession]
  /\ loaderData' = [loaderData EXCEPT ![i] =
                      Json([backendServices |-> backendConfig], 200)]
  /\ pc' = [pc EXCEPT ![i] = "loaded"]
  /\ UNCHANGED <<service, query, inflight, settled, response, posts, now,
                 backendConfig, jobVars>>

\* loader: authenticate.admin throws
LoaderThrow(i) ==
  /\ pc[i] = "idle"
  /\ pc' = [pc EXCEPT ![i] = "loaderThrown"]
  /\ UNCHANGED <<service, query, inflight, settled, response, posts, now,
                 routeVars, jobVars>>

\* the form is read and the service is not configured: 400
ActionInvalidService(i, s, q) ==
  /\ pc[i] = "formData"
  /\ ~Truthy(Lookup(s))
  /\ service' = [service EXCEPT ![i] = s]
  /\ query' = [query EXCEPT ![i] = q]
  /\ response' = [response EXCEPT ![i] = InvalidServiceResponse]
  /\ pc' = [pc EXCEPT ![i] = "returned"]
  /\ UNCHANGED <<inflight, settled, posts, now, routeVars, jobVars>>

\* as ActionPost, without the await: the response is returned with the call sent
ActionPostNoWait(i, s, q) ==
  /\ pc[i] = "formData"
  /\ Truthy(Lookup(s))
  /\ service' = [service EXCEPT ![i] = s]
  /\ query' = [query EXCEPT ![i] = q]
  /\ inflight' = [inflight EXCEPT ![i] = PostCall(Lookup(s), q, now)]
  /\ posts' = [posts EXCEPT ![i] = @ + 1]
  /\ response' = [response EXCEPT ![i] = SuccessResponse([accepted |-> TRUE], s)]
  /\ pc' = [pc EXCEPT ![i] = "returned"]
  /\ UNCHANGED <<settled, now, routeVars, jobVars>>

\* the form is read, the lookup gives a value and axios.post is called
ActionPost(i, s, q) ==
  /\ pc[i] = "formData"
  /\ Truthy(Lookup(s))
  /\ service' = [service EXCEPT ![i] = s]
  /\ query' = [query EXCEPT ![i] = q]
  /\ inflight' = [inflight EXCEPT ![i] = PostCall(Lookup(s), q, now)]
  /\ posts' = [posts EXCEPT ![i] = @ + 1]
  /\ pc' = [pc EXCEPT ![i] = "awaiting"]
  /\ UNCHANGED <<settled, response, now, routeVars, jobVars>>

\* the backend answers with a 2xx status: the promise resolves (what axios does
\* with an empty or undefined URL is its own business: both settlements are kept)
BackendResolve(i, p) ==
  /\ inflight[i] # NoCall
  /\ inflight' = [inflight EXCEPT ![i] = NoCall]
  /\ settled' = [settled EXCEPT ![i] = [kind |-> "resolved", data |-> p]]
  /\ UNCHANGED <<pc, service, query, response, posts, now, routeVars, jobVars>>

\* the request fails: the promise rejects
BackendReject(i, e) ==
  /\ inflight[i] # NoCall
  /\ inflight' = [inflight EXCEPT ![i] = NoCall]
  /\ settled' = [settled EXCEPT ![i] = [kind |-> "rejected", error |-> e]]
  /\ UNCHANGED <<pc, service, query, response, posts, now, routeVars, jobVars>>

\* as ActionReturnSuccess, with `service` kept in a variable of the module that
\* every invocation writes
ActionReturnSuccessShared(i) ==
  /\ pc[i] = "awaiting"
  /\ settled[i].kind = "resolved"
  /\ \E j \in Invocations :
       /\ pc[j] \in {"awaiting", "returned"}
       /\ response' = [response EXCEPT ![i] =
                         SuccessResponse(settled[i].data, service[j])]
  /\ pc' = [pc EXCEPT ![i] = "returned"]
  /\ UNCHANGED <<service, query, inflight, settled, posts, now, routeVars, jobVars>>

\* the await resumes with the response: return json({success, data, service})
ActionReturnSuccess(i) ==
  /\ pc[i] = "awaiting"
  /\ settled[i].kind = "resolved"
  /\ response' = [response EXCEPT ![i] = SuccessResponse(settled[i].data, service[i])]
  /\ pc' = [pc EXCEPT ![i] = "returned"]
  /\ UNCHANGED <<service, query, inflight, settled, posts, now, routeVars, jobVars>>

\* as ActionCatch, with one more attempt before giving up
ActionCatchRetry(i) ==
  /\ pc[i] = "awaiting"
  /\ settled[i].kind = "rejected"
  /\ IF posts[i] < 2
       THEN /\ inflight' = [inflight EXCEPT ![i] =
                              PostCall(Lookup(service[i]), query[i], now)]
            /\ posts' = [posts EXCEPT ![i] = @ + 1]
            /\ settled' = [settled EXCEPT ![i] = NotSettled]
            /\ UNCHANGED <<pc, response>>
       ELSE /\ response' = [response EXCEPT ![i] = FailureResponse(settled[i].error)]
            /\ pc' = [pc EXCEPT ![i] = "returned"]
            /\ UNCHANGED <<inflight, posts, settled>>
  /\ UNCHANGED <<service, query, now, routeVars, jobVars>>

\* the await throws into the catch block: return json({error, details}, 500)
ActionCatch(i) ==
  /\ pc[i] = "awaiting"
  /\ settled[i].kind = "rejected"
  /\ response' = [response EXCEPT ![i] = FailureResponse(settled[i].error)]
  /\ pc' = [pc EXCEPT ![i] = "returned"]
  /\ UNCHANGED <<service, query, inflight, settled, posts, now, routeVars, jobVars>>

Next ==
  \/ Tick
  \/ \E i \in Invocations : AuthenticateOk(i)
  \/ \E i \in Invocations : AuthenticateThrow(i)
  \/ \E i \in Invocations : LoaderReturn(i)
  \/ \E i \in Invocations : LoaderThrow(i)
  \/ \E i \in Invocations, s \in ServiceInputs, q \in QueryInputs :
       ActionInvalidService(i, s, q)
  \/ \E i \in Invocations, s \in ServiceInputs, q \in QueryInputs :
       ActionPost(i, s, q)
  \/ \E i \in Invocations, p \in Payloads : BackendResolve(i, p)
  \/ \E i \in Invocations, e \in Rejections : BackendReject(i, e)
  \/ \E i \in Invocations : ActionReturnSuccess(i)
  \/ \E i \in Invocations : ActionCatch(i)

Spec == Init /\ [][Next]_vars

\* The event loop runs every continuation of the handler whose awaited promise
\* has settled, and the clock advances; nothing makes a backend answer.
FairSpec ==
  /\ Spec
  /\ WF_vars(Tick)
  /\ \A i \in Invocations :
       /\ WF_vars(AuthenticateOk(i) \/ AuthenticateThrow(i))
       /\ WF_vars(\E s \in ServiceInputs, q \in QueryInputs :
                    ActionInvalidService(i, s, q) \/ ActionPost(i, s, q))
       /\ WF_vars(ActionReturnSuccess(i))
       /\ WF_vars(ActionCatch(i))

(* ------------------------- the job engine ----------------------------- *)
(* The asynchronous job engine (backend_api_backup/frontend_api in the      *)
(* project structure of the README) is no part of the route above: one job  *)
(* of it is modelled from sections 3, 4.1 and 4.3 of the specification.     *)

\* how many of the sources a job may request
NumRequestable == 3

SourceOrder == <<"finance", "news", "trends", "meta", "tiktok", "weather">>

Requestable == {SourceOrder[n] : n \in 1..NumRequestable}

JobTerminal == {"completed", "failed", "timed_out"}

SourceTerminal == {"ok", "error", "timeout"}

\* the sources of a sourceResults mapping that are in one of the given states
InState(results, states) == {s \in DOMAIN results : results[s].state \in states}

\* as Aggregator, failing the job as soon as one source has failed
AggregatorAllOrNothing(results) ==
  IF InState(results, {"ok"}) = DOMAIN results
    THEN [status |-> "completed",
          insight |-> [perSourceSummary |-> InState(results, {"ok"}),
                       degraded |-> FALSE]]
    ELSE [status |-> "failed", insight |-> Absent]

\* the Aggregator on a terminal sourceResults: the job's final status and its
\* CombinedInsight (the summaries are stood for by the sources summarized)
Aggregator(results) ==
  IF InState(results, {"ok"}) = {}
    THEN [status |-> "failed", insight |-> Absent]
    ELSE [status |-> "completed",
          insight |-> [perSourceSummary |-> InState(results, {"ok"}),
                       degraded |-> InState(results, {"error", "timeout"}) # {}]]

\* submit(query): the query names at least one source; the job is created pending
Submit(requested) ==
  /\ jobStatus = "none"
  /\ requested # {}
  /\ jobStatus' = "pending"
  /\ sourceResults' = [s \in requested |-> [state |-> "pending"]]
  /\ UNCHANGED <<combinedInsight, handlerVars>>

\* dispatch(job): the fetches are issued
Dispatch ==
  /\ jobStatus = "pending"
  /\ jobStatus' = "running"
  /\ UNCHANGED <<sourceResults, combinedInsight, handlerVars>>

\* one adapter call resolves with the outcome `st`; the Aggregator runs in the
\* same step once every source is terminal
SourceDone(s, st) ==
  /\ jobStatus = "running"
  /\ s \in DOMAIN sourceResults
  /\ sourceResults[s].state = "pending"
  /\ sourceResults' = [sourceResults EXCEPT ![s] = [state |-> st]]
  /\ IF InState(sourceResults', SourceTerminal) = DOMAIN sourceResults
       THEN /\ jobStatus' = Aggregator(sourceResults').status
            /\ combinedInsight' = Aggregator(sourceResults').insight
       ELSE UNCHANGED <<jobStatus, combinedInsight>>
  /\ UNCHANGED handlerVars

\* the job-level timeout: outstanding sources are recorded as timeout
JobTimeout ==
  /\ jobStatus = "running"
  /\ jobStatus' = "timed_out"
  /\ sourceResults' = [s \in DOMAIN sourceResults |->
                         IF sourceResults[s].state = "pending"
                           THEN [state |-> "timeout"] ELSE sourceResults[s]]
  /\ UNCHANGED <<combinedInsight, handlerVars>>

JobNext ==
  \/ \E requested \in SUBSET Requestable : Submit(requested)
  \/ Dispatch
  \/ \E s \in Requestable, st \in SourceTerminal : SourceDone(s, st)
  \/ JobTimeout

JobSpec == Init /\ [][JobNext]_vars

(* ------------------------------ reading ------------------------------- *)

\* the form has been read: `service` and `query` are bound
FormRead(i) == pc[i] \in {"awaiting", "returned"}

Returned(i) == pc[i] = "returned"

\* the call of axios.post is sent and not answered
Outstanding(i) == inflight[i] # NoCall

\* the response format the README documents for a backend
ConformsToSchema(p) == {"success", "data"} \subseteq DOMAIN p

\* BackendAPI: the cards the page renders for an actionData
ErrorCardShown(actionData) == "error" \in DOMAIN actionData
SuccessCardShown(actionData) ==
  "success" \in DOMAIN actionData /\ actionData.success = TRUE

(* ------------------------------- claims ------------------------------- *)

\* C1: a submission whose service is not one of the six configured sources
\* (missing field and inherited property names included) gets the 400
\* `Invalid service selected` and makes no call of axios.post.
C1_InvalidServiceRejected ==
  \A i \in Invocations :
    (FormRead(i) /\ service[i] \notin Sources) =>
      /\ posts[i] = 0
      /\ response[i] = InvalidServiceResponse

CallHasUrl(i) == Outstanding(i) /\ inflight[i].url \notin {Undefined, ""}

\* C3: every submission that passed validation eventually reaches a terminal
\* outcome, also when the backend never answers (stated for the calls that
\* reach a backend: those to a URL that is set).
C3_EventuallyTerminal ==
  \A i \in Invocations : CallHasUrl(i) ~> (pc[i] = "returned")

\* C4: a submission that passed validation makes exactly one call of
\* axios.post, a rejected one makes none, and once the call has failed no
\* further call is made or outstanding for that submission.
C4_NoRetry ==
  /\ [](\A i \in Invocations :
          /\ posts[i] <= 1
          /\ (pc[i] = "awaiting" \/ response[i].status \in {200, 500}) => posts[i] = 1
          /\ response[i].status = 400 => posts[i] = 0
          /\ settled[i].kind = "rejected" => ~Outstanding(i))
  /\ [][\A i \in Invocations :
          settled[i].kind = "rejected" =>
            (posts'[i] = posts[i] /\ inflight'[i] = NoCall)]_vars

C4_Witness ==
  \E i \in Invocations :
    /\ Returned(i) /\ settled[i].kind = "rejected"
    /\ response[i].status = 500 /\ posts[i] = 1

\* C5: a 2xx answer whose body fails the schema is recorded as an error with a
\* SchemaViolation reason, never as a success carrying the body.
C5_InvalidPayloadIsError ==
  \A i \in Invocations :
    (Returned(i) /\ settled[i].kind = "resolved" /\ ~ConformsToSchema(settled[i].data)) =>
      /\ "error" \in DOMAIN response[i].body
      /\ "data" \notin DOMAIN response[i].body
      /\ "details" \in DOMAIN response[i].body
      /\ response[i].body.details = "SchemaViolation"

\* C6: whatever axios.post rejects with, no exception leaves the action and the
\* caller gets a response whose body carries `error` and `details`.
C6_FailuresAbsorbed ==
  \A i \in Invocations :
    settled[i].kind = "rejected" =>
      /\ pc[i] \in {"awaiting", "returned"}
      /\ Returned(i) =>
           /\ response[i].status = 500
           /\ DOMAIN response[i].body = {"error", "details"}
           /\ response[i].body.error = "Failed to connect to backend service"
           /\ response[i].body.details =
                (IF settled[i].error.isError THEN settled[i].error.message
                                             ELSE "Unknown error")

C6_Witness ==
  \E i, j \in Invocations :
    /\ Returned(i) /\ settled[i].kind = "rejected" /\ ~settled[i].error.isError
    /\ Returned(j) /\ settled[j].kind = "rejected" /\ settled[j].error.isError

\* C7: every call of axios.post is a POST to the URL configured for the
\* selected source, with the body {query, timestamp} and nothing else: the
\* query as submitted, the timestamp an instant up to now.
C7_PayloadToConfiguredUrl ==
  \A i \in Invocations :
    Outstanding(i) =>
      /\ inflight[i].method = "POST"
      /\ service[i] \in Sources
      /\ inflight[i].url = BACKEND_CONFIG[service[i]].url
      /\ DOMAIN inflight[i].body = {"query", "timestamp"}
      /\ inflight[i].body.query = query[i]
      /\ inflight[i].body.timestamp \in {ToISOString(t) : t \in 0..now}

\* C8: when a job requested more than one source and exactly one of them
\* failed, the job is completed, its insight is degraded, the failed source is
\* a key of sourceResults in state error, and the sources that succeeded are
\* all summarized in the insight.
C8_PartialFailureCompletes ==
  (/\ jobStatus \in JobTerminal
   /\ Cardinality(DOMAIN sourceResults) > 1
   /\ Cardinality(InState(sourceResults, {"error"})) = 1
   /\ InState(sourceResults, {"timeout", "pending"}) = {}) =>
    /\ jobStatus = "completed"
    /\ combinedInsight # Absent
    /\ combinedInsight.degraded = TRUE
    /\ combinedInsight.perSourceSummary = InState(sourceResults, {"ok"})
    /\ combinedInsight.perSourceSummary # {}

C8_Witness ==
  /\ jobStatus = "completed"
  /\ Cardinality(DOMAIN sourceResults) = 3
  /\ Cardinality(InState(sourceResults, {"error"})) = 1
  /\ Cardinality(InState(sourceResults, {"ok"})) = 2

\* C9: the outcome follows the source's result: when the one requested source
\* answers, the submission ends as a success carrying the answer's body and no
\* mark of degradation; when it fails, the submission ends as a failure that
\* carries no result data.
C9_OutcomeFollowsSource ==
  \A i \in Invocations :
    Returned(i) =>
      /\ settled[i].kind = "resolved" =>
           /\ response[i].status = 200
           /\ "error" \notin DOMAIN response[i].body
           /\ "degraded" \notin DOMAIN response[i].body
           /\ "success" \in DOMAIN response[i].body /\ response[i].body.success = TRUE
           /\ "data" \in DOMAIN response[i].body
           /\ response[i].body.data = settled[i].data
      /\ settled[i].kind = "rejected" =>
           /\ response[i].status = 500
           /\ "error" \in DOMAIN response[i].body
           /\ "data" \notin DOMAIN response[i].body
           /\ "success" \notin DOMAIN response[i].body

C9_Witness ==
  \E i, j \in Invocations :
    /\ Returned(i) /\ settled[i].kind = "resolved" /\ response[i].status = 200
    /\ Returned(j) /\ settled[j].kind = "rejected" /\ response[j].status = 500

\* the three terminal outcomes of an invocation that returned
IsInvalid400(i) ==
  /\ response[i].status = 400
  /\ DOMAIN response[i].body = {"error"}

IsFailure500(i) ==
  /\ response[i].status = 500
  /\ DOMAIN response[i].body = {"error", "details"}

IsSuccess(i) ==
  /\ response[i].status = 200
  /\ DOMAIN response[i].body = {"success", "data", "service"}
  /\ response[i].body.success = TRUE
  /\ settled[i].kind = "resolved"
  /\ response[i].body.data = settled[i].data
  /\ response[i].body.service = service[i]

\* C10: an invocation that returns ends in exactly one of 400 with `error`
\* only, 500 with `error` and `details`, or success with `success: true`, the
\* backend's body as `data` and the submitted service; `success` and `error`
\* are never both present, `data` only comes with `success: true`, the page
\* shows exactly one of its two cards, and a response once given never changes.
C10_TerminalOutcome ==
  /\ [](\A i \in Invocations :
          /\ Returned(i) <=> response[i] # NoResponse
          /\ Returned(i) =>
               /\ IsInvalid400(i) \/ IsFailure500(i) \/ IsSuccess(i)
               /\ ~({"success", "error"} \subseteq DOMAIN response[i].body)
               /\ "data" \in DOMAIN response[i].body =>
                    ("success" \in DOMAIN response[i].body /\ response[i].body.success = TRUE)
               /\ ErrorCardShown(response[i].body) # SuccessCardShown(response[i].body))
  /\ [][\A i \in Invocations :
          response[i] # NoResponse => (response'[i] = response[i] /\ pc'[i] = pc[i])]_vars

C10_Witness ==
  \E i, j \in Invocations :
    /\ Returned(i) /\ IsSuccess(i)
    /\ Returned(j) /\ (IsInvalid400(j) \/ IsFailure500(j))

\* authenticate.admin threw for the invocation
AuthFailed(i) == pc[i] \in {"thrown", "loaderThrown"}

\* C11: in loader and action alike authenticate.admin has completed before the
\* form is read, before the configuration is returned and before any call of
\* axios.post; an invocation whose authentication failed makes no call and gets
\* none of the action's responses, then or later.
C11_AuthenticationFirst ==
  /\ [](\A i \in Invocations :
          /\ (service[i] # Undefined \/ query[i] # Undefined) =>
               session[i] = AdminSession
          /\ loaderData[i] # NoResponse => session[i] = AdminSession
          /\ (posts[i] > 0 \/ Outstanding(i)) => session[i] = AdminSession
          /\ response[i] # NoResponse => session[i] = AdminSession
          /\ AuthFailed(i) =>
               /\ session[i] = NoSession
               /\ service[i] = Undefined /\ query[i] = Undefined
               /\ posts[i] = 0 /\ ~Outstanding(i)
               /\ response[i] = NoResponse /\ loaderData[i] = NoResponse)
  /\ [][\A i \in Invocations :
          AuthFailed(i) =>
            /\ pc'[i] = pc[i]
            /\ posts'[i] = 0 /\ inflight'[i] = NoCall
            /\ response'[i] = NoResponse /\ loaderData'[i] = NoResponse]_vars

C11_Witness ==
  \E i, j \in Invocations :
    /\ pc[i] = "thrown" /\ posts[i] = 0 /\ response[i] = NoResponse
    /\ session[j] = AdminSession /\ posts[j] = 1

\* the step changes something the route holds for invocation i
Changed(i) ==
  \/ pc'[i] # pc[i]
  \/ inflight'[i] # inflight[i]
  \/ settled'[i] # settled[i]
  \/ response'[i] # response[i]
  \/ service'[i] # service[i]
  \/ query'[i] # query[i]
  \/ posts'[i] # posts[i]
  \/ session'[i] # session[i]
  \/ loaderData'[i] # loaderData[i]

\* C12: concurrent invocations do not interfere: BACKEND_CONFIG is never
\* written, a step changes the state of one invocation at most, and the
\* response of each invocation is determined by its own service and its own
\* backend reply (its own query is what its call carries), whatever the other
\* invocations did and in whatever order the backends answered.
C12_NoInterference ==
  /\ [](/\ backendConfig = BACKEND_CONFIG
        /\ \A i \in Invocations :
             /\ Outstanding(i) => inflight[i].body.query = query[i]
             /\ Returned(i) =>
                  response[i] =
                    (IF settled[i].kind = "resolved"
                       THEN [status |-> 200,
                             body |-> [success |-> TRUE, data |-> settled[i].data,
                                       service |-> service[i]]]
                     ELSE IF settled[i].kind = "rejected"
                       THEN [status |-> 500,
                             body |-> [error |-> "Failed to connect to backend service",
                                       details |-> IF settled[i].error.isError
                                                     THEN settled[i].error.message
                                                     ELSE "Unknown error"]]
                     ELSE [status |-> 400,
                           body |-> [error |-> "Invalid service selected"]])
        /\ \A i, j \in Invocations :
             (/\ Returned(i) /\ Returned(j)
              /\ service[i] = service[j] /\ query[i] = query[j]
              /\ settled[i] = settled[j]) => response[i] = response[j])
  /\ [][/\ backendConfig' = backendConfig
        /\ Cardinality({i \in Invocations : Changed(i)}) <= 1]_vars

C12_Witness ==
  \E i, j \in Invocations :
    /\ i # j /\ Returned(i) /\ Returned(j)
    /\ posts[i] = 1 /\ posts[j] = 1
    /\ service[i] # service[j]
    /\ settled[i].kind = "resolved" /\ settled[j].kind = "rejected"

====
